---- MODULE Spec2Model ----
(***************************************************************************)
(* The status bar of the zee editor: core/src/components/buffer/           *)
(* status_bar.rs.  StatusCanvas places styled text fragments from the two  *)
(* ends of a one-row canvas; StatusBar::view chains nine such requests.    *)
(*                                                                         *)
(* A text is a sequence of characters, each a one-element TLA+ string      *)
(* token; the non-ASCII glyphs of the source are named ("SNOWFLAKE",       *)
(* "BLOCK7", ...).                                                          *)
(***************************************************************************)
EXTENDS Integers, Sequences, FiniteSets, TLC

VARIABLES properties, frame, pc, step, chain, canvas, layout, accepted, writes, last, requests,
          passes, update

vars == <<properties, frame, pc, step, chain, canvas, layout, accepted, writes, last, requests,
          passes, update>>

(***************************************************************************)
(* Bounds of the model.                                                    *)
(***************************************************************************)
\* widest canvas of the StatusCanvas specification
MaxCanvasWidth == 5
\* most append calls made on one StatusCanvas there
MaxCalls == 3
\* most render passes of one StatusBar in the component specification
MaxPasses == 2
\* most change / resize calls on one StatusBar there
MaxUpdates == 2
\* widest frame of a render pass
MaxWidth == 49
\* largest num_lines / current_line_index of the line-position specification
MaxLines == 21

Min(a, b) == IF a <= b THEN a ELSE b

RECURSIVE Pow2(_)
Pow2(k) == IF k = 0 THEN 1 ELSE 2 * Pow2(k - 1)

(***************************************************************************)
(* Characters and their display width (unicode_width).                     *)
(***************************************************************************)
\* a double-width character (East Asian Wide), e.g. a CJK ideograph
WideChars == {"WIDE"}
\* a zero-width character, e.g. a combining mark or a control character
ZeroWidthChars == {"ZERO"}

CharWidth(c) ==
    IF c \in WideChars THEN 2
    ELSE IF c \in ZeroWidthChars THEN 0
    ELSE 1

\* UnicodeWidthStr::width: the sum of the characters' widths
RECURSIVE UnicodeWidth(_)
UnicodeWidth(content) ==
    IF content = <<>> THEN 0
    ELSE CharWidth(Head(content)) + UnicodeWidth(Tail(content))

(***************************************************************************)
(* zi::Canvas, one row: a sequence of textels.  A textel is a styled       *)
(* grapheme, or NoTextel (the trailing cells of a wide grapheme).          *)
(***************************************************************************)
NoTextel == [style |-> "none", grapheme |-> "none"]

Textel(style, grapheme) == [style |-> style, grapheme |-> grapheme]

\* Canvas::new(size) followed by Canvas::clear(style)
CanvasNewCleared(size, style) ==
    [i \in 1..(size.width * size.height) |-> Textel(style, " ")]

\* Canvas::draw_graphemes from 0-based offset `offset`, stopping at `max`
RECURSIVE DrawGraphemes(_, _, _, _, _)
DrawGraphemes(cells, offset, max, style, content) ==
    IF content = <<>> \/ offset >= max THEN [cells |-> cells, offset |-> offset]
    ELSE LET w == CharWidth(Head(content)) IN
         IF w = 0 THEN DrawGraphemes(cells, offset, max, style, Tail(content))
         ELSE LET n == Min(w, max - offset)
                  drawn == [i \in DOMAIN cells |->
                               IF i = offset + 1 THEN Textel(style, Head(content))
                               ELSE IF i > offset + 1 /\ i <= offset + n THEN NoTextel
                               ELSE cells[i]]
              IN DrawGraphemes(drawn, offset + n, max, style, Tail(content))

\* Canvas::draw_str(x, 0, style, content) on a canvas of `size`:
\* the new cells and the number of columns written
DrawStr(cells, size, x, style, content) ==
    IF 0 >= size.height \/ x >= size.width THEN [cells |-> cells, written |-> 0]
    ELSE LET r == DrawGraphemes(cells, x, Min(size.width * size.height, size.width), style, content)
         IN [cells |-> r.cells, written |-> r.offset - x]

(***************************************************************************)
(* StatusCanvas: the canvas and the free interval [start, end) of columns  *)
(* not yet written.                                                        *)
(***************************************************************************)
\* StatusCanvas::new without the clear: the cells of a fresh Canvas::new
StatusCanvasNew_uncleared(size, base) ==
    [cells |-> [i \in 1..(size.width * size.height) |-> NoTextel],
     size  |-> size,
     free  |-> [start |-> 0, end |-> size.width]]

\* StatusCanvas::new(size, base)
StatusCanvasNew(size, base) ==
    [cells |-> CanvasNewCleared(size, base),
     size  |-> size,
     free  |-> [start |-> 0, end |-> size.width]]

\* remaining_space that measures to the end of the line, not to free.end
remaining_space_to_line_end(self) ==
    IF self.size.width >= self.free.start THEN self.size.width - self.free.start ELSE 0

\* StatusCanvas::remaining_space: free.end.saturating_sub(free.start)
remaining_space(self) ==
    IF self.free.end >= self.free.start THEN self.free.end - self.free.start ELSE 0

\* The outcome of an append: the canvas after it, Some / None (or Panic: the
\* usize subtraction free.end - width underflowed), the column drawn at, the
\* width computed and the columns draw_str reported written.
Outcome(self, result, col, width, written) ==
    [canvas |-> self, result |-> result, col |-> col, width |-> width, written |-> written]

\* append_start that advances free.start by the number of characters, not by
\* the display width
append_start_by_chars(self, style, content) ==
    LET width == UnicodeWidth(content) IN
    IF width <= remaining_space(self)
    THEN LET d == DrawStr(self.cells, self.size, self.free.start, style, content)
         IN Outcome([self EXCEPT !.cells = d.cells, !.free.start = @ + Len(content)],
                    "Some", self.free.start, width, d.written)
    ELSE Outcome(self, "None", self.free.start, width, 0)

\* append_start that compares the width with free.end, not with the space left
append_start_guard_end(self, style, content) ==
    LET width == UnicodeWidth(content) IN
    IF width <= self.free.end
    THEN LET d == DrawStr(self.cells, self.size, self.free.start, style, content)
         IN Outcome([self EXCEPT !.cells = d.cells, !.free.start = @ + d.written],
                    "Some", self.free.start, width, d.written)
    ELSE Outcome(self, "None", self.free.start, width, 0)

\* StatusCanvas::append_start(style, content)
append_start(self, style, content) ==
    LET width == UnicodeWidth(content) IN
    IF width <= remaining_space(self)
    THEN LET d == DrawStr(self.cells, self.size, self.free.start, style, content)
         IN Outcome([self EXCEPT !.cells = d.cells, !.free.start = @ + d.written],
                    "Some", self.free.start, width, d.written)
    ELSE Outcome(self, "None", self.free.start, width, 0)

\* append_end that draws but does not contract free.end
append_end_no_contract(self, style, content) ==
    LET width == UnicodeWidth(content) IN
    IF width <= remaining_space(self)
    THEN IF self.free.end - width < 0
         THEN Outcome(self, "Panic", 0, width, 0)
         ELSE LET d == DrawStr(self.cells, self.size, self.free.end - width, style, content)
              IN Outcome([self EXCEPT !.cells = d.cells],
                         "Some", self.free.end - width, width, d.written)
    ELSE Outcome(self, "None", self.free.end, width, 0)

\* append_end that draws at free.start instead of free.end - width
append_end_from_start(self, style, content) ==
    LET width == UnicodeWidth(content) IN
    IF width <= remaining_space(self)
    THEN LET d == DrawStr(self.cells, self.size, self.free.start, style, content)
         IN Outcome([self EXCEPT !.cells = d.cells, !.free.end = @ - d.written],
                    "Some", self.free.start, width, d.written)
    ELSE Outcome(self, "None", self.free.end, width, 0)

\* append_end that wants a free column left over after the fragment
append_end_strict(self, style, content) ==
    LET width == UnicodeWidth(content) IN
    IF width < remaining_space(self)
    THEN IF self.free.end - width < 0
         THEN Outcome(self, "Panic", 0, width, 0)
         ELSE LET d == DrawStr(self.cells, self.size, self.free.end - width, style, content)
              IN Outcome([self EXCEPT !.cells = d.cells, !.free.end = @ - d.written],
                         "Some", self.free.end - width, width, d.written)
    ELSE Outcome(self, "None", self.free.end, width, 0)

\* append_end that draws every fragment flush with the end of the line
append_end_at_line_end(self, style, content) ==
    LET width == UnicodeWidth(content) IN
    IF width <= remaining_space(self)
    THEN IF self.size.width - width < 0
         THEN Outcome(self, "Panic", 0, width, 0)
         ELSE LET d == DrawStr(self.cells, self.size, self.size.width - width, style, content)
              IN Outcome([self EXCEPT !.cells = d.cells, !.free.end = @ - d.written],
                         "Some", self.size.width - width, width, d.written)
    ELSE Outcome(self, "None", self.free.end, width, 0)

\* append_end that sets free.end back from the end of the line, not from the
\* free.end it found
append_end_grows(self, style, content) ==
    LET width == UnicodeWidth(content) IN
    IF width <= remaining_space(self)
    THEN IF self.free.end - width < 0
         THEN Outcome(self, "Panic", 0, width, 0)
         ELSE LET d == DrawStr(self.cells, self.size, self.free.end - width, style, content)
              IN Outcome([self EXCEPT !.cells = d.cells,
                                      !.free.end = self.size.width - d.written],
                         "Some", self.free.end - width, width, d.written)
    ELSE Outcome(self, "None", self.free.end, width, 0)

\* StatusCanvas::append_end(style, content)
append_end(self, style, content) ==
    LET width == UnicodeWidth(content) IN
    IF width <= remaining_space(self)
    THEN IF self.free.end - width < 0
         THEN Outcome(self, "Panic", 0, width, 0)
         ELSE LET d == DrawStr(self.cells, self.size, self.free.end - width, style, content)
              IN Outcome([self EXCEPT !.cells = d.cells, !.free.end = @ - d.written],
                         "Some", self.free.end - width, width, d.written)
    ELSE Outcome(self, "None", self.free.end, width, 0)

\* impl From<StatusCanvas> for Layout: the underlying canvas is handed back
IntoLayout(self) == self.cells

(***************************************************************************)
(* f32 arithmetic of the progress glyph (lines 116-118), for the values    *)
(* the model reaches: non-negative, finite values m / 2^s with m <= 2^24,  *)
(* infinity and NaN.  Division and multiplication round to a 24-bit        *)
(* significand, ties to even, as IEEE 754 binary32 does.                   *)
(***************************************************************************)
F32(m, s) == [kind |-> "fin", m |-> m, s |-> s]
F32Inf == [kind |-> "inf", m |-> 0, s |-> 0]
F32NaN == [kind |-> "nan", m |-> 0, s |-> 0]

\* `n as f32`, exact for n < 2^24
F32FromUsize(n) == F32(n, 0)

\* q, or q + 1 when the remainder r (out of d) rounds up, ties to even
RoundNearestEven(q, r, d) ==
    IF 2 * r > d \/ (2 * r = d /\ q % 2 = 1) THEN q + 1 ELSE q

\* the least k >= 0 with a * 2^k >= b
RECURSIVE ShiftUpTo(_, _)
ShiftUpTo(a, b) == IF a >= b THEN 0 ELSE 1 + ShiftUpTo(2 * a, b)

\* the least r >= 0 with p < 2^(24 + r)
RECURSIVE ShiftDownTo(_)
ShiftDownTo(p) == IF p < Pow2(24) THEN 0 ELSE 1 + ShiftDownTo(p \div 2)

\* a / b in f32; both operands are integers here
F32Div(a, b) ==
    IF a.kind # "fin" \/ b.kind # "fin" THEN F32NaN
    ELSE IF b.m = 0 THEN (IF a.m = 0 THEN F32NaN ELSE F32Inf)
    ELSE IF a.m = 0 THEN F32(0, 0)
    ELSE LET k == ShiftUpTo(a.m, Pow2(23) * b.m)
             n == a.m * Pow2(k)
         IN F32(RoundNearestEven(n \div b.m, n % b.m, b.m), k + a.s - b.s)

\* a * b in f32
F32Mul(a, b) ==
    IF a.kind = "nan" \/ b.kind = "nan" THEN F32NaN
    ELSE IF a.kind = "inf" \/ b.kind = "inf"
         THEN (IF (a.kind = "fin" /\ a.m = 0) \/ (b.kind = "fin" /\ b.m = 0)
               THEN F32NaN ELSE F32Inf)
    ELSE LET p == a.m * b.m
             r == ShiftDownTo(p)
         IN F32(RoundNearestEven(p \div Pow2(r), p % Pow2(r), Pow2(r)), a.s + b.s - r)

\* f32::round: to the nearest integer, halves away from zero
F32Round(a) ==
    IF a.kind # "fin" THEN a
    ELSE IF a.s <= 0 THEN F32(a.m * Pow2(0 - a.s), 0)
    ELSE F32((a.m \div Pow2(a.s)) + (IF 2 * (a.m % Pow2(a.s)) >= Pow2(a.s) THEN 1 ELSE 0), 0)

\* usize::MAX, as far as the model's integers reach
UsizeMax == Pow2(30) + (Pow2(30) - 1)

\* `x as usize` of a rounded f32: the cast saturates, and NaN becomes 0
F32ToUsize(a) ==
    IF a.kind = "nan" THEN 0
    ELSE IF a.kind = "inf" THEN UsizeMax
    ELSE a.m

(***************************************************************************)
(* Formatting (format!).                                                   *)
(***************************************************************************)
DigitChars == <<"0", "1", "2", "3", "4", "5", "6", "7", "8", "9">>

\* "{}" of an unsigned integer
RECURSIVE Display(_)
Display(n) ==
    IF n < 10 THEN <<DigitChars[n + 1]>>
    ELSE Display(n \div 10) \o <<DigitChars[(n % 10) + 1]>>

\* "{:>w}": right-aligned in at least w columns, padded with spaces
PadLeft(text, w) ==
    [i \in 1..(IF Len(text) >= w THEN 0 ELSE w - Len(text)) |-> " "] \o text

\* usize::saturating_sub
SaturatingSub(a, b) == IF a >= b THEN a - b ELSE 0

\* SizeFormatterBinary's prefixes
BinaryPrefixes == <<"", "Ki", "Mi", "Gi">>

Chars(name) ==
    CASE name = "" -> <<>>
      [] name = "Ki" -> <<"K", "i">>
      [] name = "Mi" -> <<"M", "i">>
      [] name = "Gi" -> <<"G", "i">>
      [] name = "Normal" -> <<"N", "o", "r", "m", "a", "l">>
      [] name = "Insert" -> <<"I", "n", "s", "e", "r", "t">>
      [] name = "master" -> <<"m", "a", "s", "t", "e", "r">>
      [] name = "a" -> <<"a">>
      [] name = "b.txt" -> <<"b", ".", "t", "x", "t">>
      [] name = ".." -> <<".", ".">>

\* "{}" of SizeFormatterBinary::new(bytes): below 1024 the plain count, above
\* it the count in the largest binary unit with one decimal and the unit's
\* prefix; the formatter prints no unit letter (its callers write "{}B") and
\* line 129 adds none
RECURSIVE FormatSizeIn(_, _, _)
FormatSizeIn(bytes, unit, k) ==
    IF bytes \div unit >= 1024 /\ k < Len(BinaryPrefixes)
    THEN FormatSizeIn(bytes, unit * 1024, k + 1)
    ELSE IF k = 1 THEN Display(bytes)
    ELSE LET tenths == RoundNearestEven((bytes * 10) \div unit, (bytes * 10) % unit, unit)
         IN Display(tenths \div 10) \o <<".">> \o Display(tenths % 10)
            \o Chars(BinaryPrefixes[k])

SizeFormatterBinary(bytes) == FormatSizeIn(bytes, 1, 1)

(***************************************************************************)
(* The nine fragments of StatusBar::view, as functions of the properties.  *)
(* A path is a sequence of component names; a repository is "unborn" (its   *)
(* head() is an error), "unnamed" (the head has no shorthand) or carries   *)
(* the branch name.                                                        *)
(***************************************************************************)
None == [some |-> FALSE]
Some(v) == [some |-> TRUE, value |-> v]

PROGRESS_SYMBOLS == <<"BLOCK7", "BLOCK6", "BLOCK5", "BLOCK4", "BLOCK3", "BLOCK2", "BLOCK1", " ">>

Request(anchor, style, content) == [anchor |-> anchor, style |-> style, content |-> content]
Panic == [anchor |-> "panic"]

\* lines 86-95
BufferNumber(p) ==
    Request("start",
            IF p.focused THEN p.theme.frame_id_focused ELSE p.theme.frame_id_unfocused,
            <<" ">> \o Display(p.frame_id) \o <<" ">>)

\* lines 97-108
HasUnsavedChanges(p) ==
    Request("start",
            IF p.has_unsaved_changes = "Unchanged" THEN p.theme.is_not_modified
            ELSE p.theme.is_modified,
            IF p.has_unsaved_changes = "Unchanged" THEN <<" ", "-", " ">>
            ELSE <<" ", "SNOWFLAKE", " ">>)

\* the index without .round(): the cast to usize truncates
ProgressIndex_truncating(current_line_index, num_lines) ==
    LET x == F32Mul(F32FromUsize(Len(PROGRESS_SYMBOLS) - 1),
                    F32Div(F32FromUsize(current_line_index), F32FromUsize(num_lines)))
    IN IF x.kind = "fin" /\ x.s > 0 THEN x.m \div Pow2(x.s) ELSE F32ToUsize(F32Round(x))

\* the index scaled by the number of glyphs, not by the last index
ProgressIndex_by_len(current_line_index, num_lines) ==
    F32ToUsize(F32Round(F32Mul(F32FromUsize(Len(PROGRESS_SYMBOLS)),
                               F32Div(F32FromUsize(current_line_index),
                                      F32FromUsize(num_lines)))))

\* lines 116-118: the index into PROGRESS_SYMBOLS (0-based)
ProgressIndex(current_line_index, num_lines) ==
    F32ToUsize(F32Round(F32Mul(F32FromUsize(Len(PROGRESS_SYMBOLS) - 1),
                               F32Div(F32FromUsize(current_line_index),
                                      F32FromUsize(num_lines)))))

\* lines 110-124; indexing outside PROGRESS_SYMBOLS panics
ProgressGlyph(p) ==
    IF p.focused
    THEN LET index == ProgressIndex(p.current_line_index, p.num_lines) IN
         IF index >= Len(PROGRESS_SYMBOLS) THEN Panic
         ELSE Request("end", p.theme.frame_id_focused, <<PROGRESS_SYMBOLS[index + 1]>>)
    ELSE Request("end", p.theme.position_in_file, <<" ">>)

\* lines 126-131
FileSize(p) ==
    Request("start", p.theme.file_size, <<" ">> \o SizeFormatterBinary(p.size_bytes))

RECURSIVE PathDisplay(_)
PathDisplay(path) ==
    IF Len(path) = 0 THEN <<>>
    ELSE IF Len(path) = 1 THEN Chars(path[1])
    ELSE Chars(path[1]) \o <<"/">> \o PathDisplay(Tail(path))

\* Path::file_name: the final component, unless the path ends in ".."
PathFileName(path) ==
    IF Len(path) = 0 \/ path[Len(path)] = ".." THEN None ELSE Some(path[Len(path)])

\* the file name fragment showing the whole path
FileName_whole_path(p) ==
    Request("start", p.theme.file_name,
            IF p.file_path.some THEN <<" ">> \o PathDisplay(p.file_path.value) ELSE <<>>)

\* lines 133-146
FileName(p) ==
    Request("start", p.theme.file_name,
            IF p.file_path.some
            THEN (IF PathFileName(p.file_path.value).some
                  THEN <<" ">> \o Chars(PathFileName(p.file_path.value).value)
                  ELSE <<" ">> \o PathDisplay(p.file_path.value))
            ELSE <<>>)

\* the position indicator with " End " tested before " Top "
PositionText_end_first(current_line_index, num_lines) ==
    IF current_line_index = SaturatingSub(num_lines, 2) THEN <<" ", "E", "n", "d", " ">>
    ELSE IF current_line_index = 0 THEN <<" ", "T", "o", "p", " ">>
    ELSE <<" ">>
         \o PadLeft(Display(IF num_lines > 0
                            THEN (100 * (current_line_index + 1)) \div num_lines
                            ELSE 100), 2)
         \o <<"%", " ">>

\* the position indicator with the percentage of the lines above the current one
PositionText_lines_above(current_line_index, num_lines) ==
    IF current_line_index = 0 THEN <<" ", "T", "o", "p", " ">>
    ELSE IF current_line_index = SaturatingSub(num_lines, 2) THEN <<" ", "E", "n", "d", " ">>
    ELSE <<" ">>
         \o PadLeft(Display(IF num_lines > 0
                            THEN (100 * current_line_index) \div num_lines
                            ELSE 100), 2)
         \o <<"%", " ">>

\* lines 151-164: the text of the position indicator
PositionText(current_line_index, num_lines) ==
    IF current_line_index = 0 THEN <<" ", "T", "o", "p", " ">>
    ELSE IF current_line_index = SaturatingSub(num_lines, 2) THEN <<" ", "E", "n", "d", " ">>
    ELSE <<" ">>
         \o PadLeft(Display(IF num_lines > 0
                            THEN (100 * (current_line_index + 1)) \div num_lines
                            ELSE 100), 2)
         \o <<"%", " ">>

\* lines 148-166
PositionInFile(p) ==
    Request("end", p.theme.position_in_file, PositionText(p.current_line_index, p.num_lines))

\* lines 168-175
LineStatus(p) ==
    Request("end", p.theme.is_not_modified,
            <<" ">> \o PadLeft(Display(p.current_line_index), 3) \o <<":">>
            \o PadLeft(Display(p.visual_cursor_x), 2) \o <<" ">>)

\* line 177
ModeName(p) ==
    Request("start", p.theme.mode, <<" ", " ">> \o Chars(p.mode))

\* lines 179-192; head().unwrap() panics on a repository without a head
Branch(p) ==
    IF p.repository.some /\ p.repository.value = "unborn" THEN Panic
    ELSE Request("end", p.theme.position_in_file,
                 IF p.repository.some /\ p.repository.value # "unnamed"
                 THEN Chars(p.repository.value) \o <<" ", " ">>
                 ELSE <<>>)

\* the requests with the file size asked for before the progress glyph
Fragments_size_first(p) ==
    [k \in 1..9 |->
        CASE k = 1 -> BufferNumber(p)
          [] k = 2 -> HasUnsavedChanges(p)
          [] k = 3 -> FileSize(p)
          [] k = 4 -> ProgressGlyph(p)
          [] k = 5 -> FileName(p)
          [] k = 6 -> PositionInFile(p)
          [] k = 7 -> LineStatus(p)
          [] k = 8 -> ModeName(p)
          [] k = 9 -> Branch(p)]

\* the k-th request of view, in the order of the chain
Fragments(p) ==
    [k \in 1..9 |->
        CASE k = 1 -> BufferNumber(p)
          [] k = 2 -> HasUnsavedChanges(p)
          [] k = 3 -> ProgressGlyph(p)
          [] k = 4 -> FileSize(p)
          [] k = 5 -> FileName(p)
          [] k = 6 -> PositionInFile(p)
          [] k = 7 -> LineStatus(p)
          [] k = 8 -> ModeName(p)
          [] k = 9 -> Branch(p)]

(***************************************************************************)
(* Bookkeeping of the calls made (history, not program state).             *)
(*   accepted  - the fragments accepted so far, in call order              *)
(*   writes    - per column, how many accepted fragments covered it        *)
(*   last      - the latest append call and the canvas it was made on      *)
(*   requests  - the requests a render pass has made, in order             *)
(*   passes    - the render passes finished: what each was made from and   *)
(*               the canvas it ended with                                  *)
(*   update    - the latest change / resize call, what it returned, the    *)
(*               state it was made on and the number of such calls         *)
(***************************************************************************)
NoLayout == <<>>

NoUpdate == [op |-> "create", n |-> 0]

Pass(p, f, self) == [properties |-> p, frame |-> f, cells |-> self.cells, free |-> self.free]

Update(op, arg, result, p, f, n) ==
    [op |-> op, arg |-> arg, result |-> result, properties |-> p, frame |-> f, n |-> n]

NoCall == [op |-> "none"]

Call(op, style, content, before, out) ==
    [op |-> op, style |-> style, content |-> content, before |-> before,
     result |-> out.result, col |-> out.col, width |-> out.width, written |-> out.written]

Fragment(anchor, style, content, out) ==
    [anchor |-> anchor, style |-> style, content |-> content,
     col |-> out.col, width |-> out.written]

Accept(log, anchor, style, content, out) ==
    IF out.result = "Some" THEN Append(log, Fragment(anchor, style, content, out)) ELSE log

Cover(w, out) ==
    IF out.result = "Some"
    THEN [c \in DOMAIN w |-> IF c > out.col /\ c <= out.col + out.written THEN w[c] + 1 ELSE w[c]]
    ELSE w

(***************************************************************************)
(* SpecCanvas: one StatusCanvas under any sequence of appends.             *)
(***************************************************************************)
Styles == {"file_name", "mode"}

\* sample texts of display widths 0, 0, 1, 2 and 3
Texts == {<<>>, <<"ZERO">>, <<"a">>, <<"WIDE">>, <<"a", "ZERO", "WIDE">>}

NoProperties == [focused |-> FALSE]

CanvasInit ==
    /\ frame \in [width : 0..MaxCanvasWidth, height : {1}]
    /\ canvas = StatusCanvasNew(frame, "base")
    /\ properties = NoProperties
    /\ pc = "canvas"
    /\ step = 0
    /\ chain = "Some"
    /\ accepted = <<>>
    /\ writes = [c \in 1..frame.width |-> 0]
    /\ last = NoCall
    /\ requests = <<>>
    /\ layout = NoLayout
    /\ passes = <<>>
    /\ update = NoUpdate

AppendStart ==
    /\ pc = "canvas"
    /\ step < MaxCalls
    /\ \E style \in Styles, content \in Texts :
         \E out \in {append_start(canvas, style, content)} :
         /\ canvas' = out.canvas
         /\ last' = Call("append_start", style, content, canvas, out)
         /\ accepted' = Accept(accepted, "start", style, content, out)
         /\ writes' = Cover(writes, out)
         /\ chain' = out.result
    /\ step' = step + 1
    /\ UNCHANGED <<properties, frame, pc, layout, requests, passes, update>>

AppendEnd ==
    /\ pc = "canvas"
    /\ step < MaxCalls
    /\ \E style \in Styles, content \in Texts :
         \E out \in {append_end(canvas, style, content)} :
         /\ canvas' = out.canvas
         /\ last' = Call("append_end", style, content, canvas, out)
         /\ accepted' = Accept(accepted, "end", style, content, out)
         /\ writes' = Cover(writes, out)
         /\ chain' = out.result
    /\ step' = step + 1
    /\ UNCHANGED <<properties, frame, pc, layout, requests, passes, update>>

CanvasNext == AppendStart \/ AppendEnd

SpecCanvas == CanvasInit /\ [][CanvasNext]_vars

(***************************************************************************)
(* StatusBar: create, then one render pass (view), one and_then at a time. *)
(* pc is "idle" before the pass, "view" during it, "done" after it and     *)
(* "panicked" when a closure of the chain panicked; step counts the        *)
(* and_then calls made and chain is the Option they pass along.            *)
(***************************************************************************)
TheTheme ==
    [base |-> "base", frame_id_focused |-> "frame_id_focused",
     frame_id_unfocused |-> "frame_id_unfocused", is_modified |-> "is_modified",
     is_not_modified |-> "is_not_modified", file_name |-> "file_name",
     file_size |-> "file_size", position_in_file |-> "position_in_file", mode |-> "mode"]

Props(lines, focused, status, path, repository) ==
    [theme |-> TheTheme, current_line_index |-> lines[2], file_path |-> path,
     focused |-> focused, frame_id |-> 1, has_unsaved_changes |-> status,
     mode |-> "Normal", num_lines |-> lines[1], repository |-> repository,
     size_bytes |-> 2048, visual_cursor_x |-> 0]

ModifiedStatus == {"Unchanged", "Changed", "Saving"}

\* <<num_lines, current_line_index>>: first, last but one and last line of a
\* file, a line in the middle, and line 1 of no lines
SampleLines == {<<100, 0>>, <<100, 98>>, <<100, 99>>, <<100, 49>>, <<0, 1>>}

SamplePaths == {None, Some(<<"a", "b.txt">>), Some(<<"a", "..">>)}

SampleRepositories == {None, Some("master"), Some("unnamed"), Some("unborn")}

PropertiesSet ==
    {Props(l, f, m, path, r) :
        l \in SampleLines, f \in BOOLEAN, m \in ModifiedStatus,
        path \in SamplePaths, r \in SampleRepositories}

\* every pair of line counts up to MaxLines, the rest as in a plain buffer
LinePropertiesSet ==
    {Props(<<n, i>>, f, "Unchanged", Some(<<"a", "b.txt">>), None) :
        n \in 0..MaxLines, i \in 0..MaxLines, f \in BOOLEAN}

NoCanvas == StatusCanvasNew([width |-> 0, height |-> 1], "base")

\* StatusBar::create(properties, frame, link)
create(p, f) ==
    /\ properties = p
    /\ frame = f
    /\ pc = "idle"
    /\ step = 0
    /\ chain = "Some"
    /\ canvas = NoCanvas
    /\ layout = NoLayout
    /\ accepted = <<>>
    /\ writes = <<>>
    /\ last = NoCall
    /\ requests = <<>>
    /\ passes = <<>>
    /\ update = NoUpdate

Init ==
    \E p \in PropertiesSet, f \in [width : 0..MaxWidth, height : {1}] : create(p, f)

LinesInit ==
    \E p \in LinePropertiesSet, f \in [width : {MaxWidth}, height : {1}] : create(p, f)

\* a pass that draws on the canvas the pass before it left behind
StartPass_keeps_canvas ==
    /\ pc' = "view"
    /\ canvas' = IF passes = <<>> THEN StatusCanvasNew(frame, properties.theme.base) ELSE canvas
    /\ step' = 0
    /\ chain' = "Some"
    /\ accepted' = <<>>
    /\ writes' = [c \in 1..frame.width |-> 0]
    /\ last' = NoCall
    /\ requests' = <<>>
    /\ UNCHANGED <<properties, frame, layout, passes, update>>

\* line 83: StatusCanvas::new(frame.size, theme.base); Some(&mut canvas)
StartPass ==
    /\ pc' = "view"
    /\ canvas' = StatusCanvasNew(frame, properties.theme.base)
    /\ step' = 0
    /\ chain' = "Some"
    /\ accepted' = <<>>
    /\ writes' = [c \in 1..frame.width |-> 0]
    /\ last' = NoCall
    /\ requests' = <<>>
    /\ UNCHANGED <<properties, frame, layout, passes, update>>

\* StatusBar::view, called on the component as created
ViewBegin ==
    /\ pc = "idle"
    /\ StartPass

\* StatusBar::view, called again after a pass has finished
ViewAgain ==
    /\ pc = "done"
    /\ Len(passes) < MaxPasses
    /\ StartPass

Requested(k, req, out) ==
    [k |-> k, anchor |-> req.anchor, style |-> req.style, content |-> req.content,
     result |-> out.result]

\* the closure of the k-th and_then, run on Some(canvas): it computes its
\* fragment and appends it (req and out range over one value each)
Closure(k) ==
    \E req \in {Fragments(properties)[k]} :
      IF req.anchor = "panic"
      THEN /\ pc' = "panicked"
           /\ UNCHANGED <<step, chain, canvas, accepted, writes, last, requests>>
      ELSE \E out \in {IF req.anchor = "start"
                       THEN append_start(canvas, req.style, req.content)
                       ELSE append_end(canvas, req.style, req.content)} :
             IF out.result = "Panic"
             THEN /\ pc' = "panicked"
                  /\ UNCHANGED <<step, chain, canvas, accepted, writes, last, requests>>
             ELSE /\ step' = k
                  /\ chain' = out.result
                  /\ canvas' = out.canvas
                  /\ accepted' = Accept(accepted, req.anchor, req.style, req.content, out)
                  /\ writes' = Cover(writes, out)
                  /\ last' = Call(IF req.anchor = "start" THEN "append_start"
                                  ELSE "append_end",
                                  req.style, req.content, canvas, out)
                  /\ requests' = Append(requests, Requested(k, req, out))
                  /\ UNCHANGED pc

\* a chain that tries every fragment, whatever became of the one before
AndThen_independent(k) ==
    /\ pc = "view"
    /\ step = k - 1
    /\ Closure(k)
    /\ UNCHANGED <<properties, frame, layout, passes, update>>

\* the k-th and_then of the chain: on None the closure is not run
AndThen(k) ==
    /\ pc = "view"
    /\ step = k - 1
    /\ IF chain = "None"
       THEN /\ step' = k
            /\ UNCHANGED <<pc, chain, canvas, accepted, writes, last, requests>>
       ELSE Closure(k)
    /\ UNCHANGED <<properties, frame, layout, passes, update>>

ViewBufferNumber == AndThen(1)
ViewHasUnsavedChanges == AndThen(2)
ViewProgressGlyph == AndThen(3)
ViewFileSize == AndThen(4)
ViewFileName == AndThen(5)
ViewPositionInFile == AndThen(6)
ViewLineStatus == AndThen(7)
ViewModeName == AndThen(8)
ViewBranch == AndThen(9)

\* line 193: canvas.into()
ViewEnd ==
    /\ pc = "view"
    /\ step = 9
    /\ pc' = "done"
    /\ layout' = IntoLayout(canvas)
    /\ passes' = Append(passes, Pass(properties, frame, canvas))
    /\ UNCHANGED <<properties, frame, step, chain, canvas, accepted, writes, last, requests, update>>

Next ==
    \/ ViewBegin
    \/ ViewBufferNumber
    \/ ViewHasUnsavedChanges
    \/ ViewProgressGlyph
    \/ ViewFileSize
    \/ ViewFileName
    \/ ViewPositionInFile
    \/ ViewLineStatus
    \/ ViewModeName
    \/ ViewBranch
    \/ ViewEnd

Spec == Init /\ [][Next]_vars

SpecLines == LinesInit /\ [][Next]_vars

(***************************************************************************)
(* SpecComponent: the component under change, resize and repeated render   *)
(* passes.  view borrows the component, so change and resize happen        *)
(* between passes only.                                                    *)
(***************************************************************************)
DarkTheme == [TheTheme EXCEPT !.base = "base_dark", !.mode = "mode_dark"]

ComponentProperties ==
    {Props(<<100, 0>>, TRUE, "Unchanged", Some(<<"a", "b.txt">>), None),
     Props(<<100, 0>>, FALSE, "Unchanged", Some(<<"a", "b.txt">>), None),
     Props(<<100, 49>>, TRUE, "Changed", None, Some("master")),
     [Props(<<100, 0>>, TRUE, "Unchanged", Some(<<"a", "b.txt">>), None)
         EXCEPT !.theme = DarkTheme]}

\* frames too narrow for every fragment, and wide enough for all of them
ComponentFrames == [width : {10, 40, 49}, height : {1}]

ComponentInit ==
    \E p \in ComponentProperties, f \in ComponentFrames : create(p, f)

\* change that reports the difference but keeps the old properties
change_keeps_old(p) ==
    /\ pc \in {"idle", "done"}
    /\ update.n < MaxUpdates
    /\ update' = Update("change", p, IF properties # p THEN "Yes" ELSE "No",
                        properties, frame, update.n + 1)
    /\ UNCHANGED <<properties, frame, pc, step, chain, canvas, layout, accepted, writes, last,
                   requests, passes>>

\* StatusBar::change(properties) -> ShouldRender
change(p) ==
    /\ pc \in {"idle", "done"}
    /\ update.n < MaxUpdates
    /\ properties' = IF properties # p THEN p ELSE properties
    /\ update' = Update("change", p, IF properties # p THEN "Yes" ELSE "No",
                        properties, frame, update.n + 1)
    /\ UNCHANGED <<frame, pc, step, chain, canvas, layout, accepted, writes, last, requests,
                   passes>>

\* StatusBar::resize(frame) -> ShouldRender
resize(f) ==
    /\ pc \in {"idle", "done"}
    /\ update.n < MaxUpdates
    /\ frame' = f
    /\ update' = Update("resize", f, "Yes", properties, frame, update.n + 1)
    /\ UNCHANGED <<properties, pc, step, chain, canvas, layout, accepted, writes, last, requests,
                   passes>>

Change == \E p \in ComponentProperties : change(p)

Resize == \E f \in ComponentFrames : resize(f)

ComponentNext ==
    \/ Change
    \/ Resize
    \/ ViewAgain
    \/ Next

SpecComponent == ComponentInit /\ [][ComponentNext]_vars

(***************************************************************************)
(* Claims about StatusCanvas, checked under SpecCanvas.                    *)
(***************************************************************************)
RECURSIVE SumWidths(_)
SumWidths(log) ==
    IF log = <<>> THEN 0 ELSE UnicodeWidth(Head(log).content) + SumWidths(Tail(log))

\* the columns (0-based) an accepted fragment occupies
Columns(f) == f.col .. (f.col + UnicodeWidth(f.content) - 1)

\* what a text looks like once drawn: per character of non-zero width its
\* styled textel, followed by empty textels up to the character's width
RECURSIVE Rendered(_, _)
Rendered(style, content) ==
    IF content = <<>> THEN <<>>
    ELSE LET w == CharWidth(Head(content)) IN
         (IF w = 0 THEN <<>>
          ELSE <<Textel(style, Head(content))>> \o [i \in 1..(w - 1) |-> NoTextel])
         \o Rendered(style, Tail(content))

\* the cells of columns [from, from + n) (0-based)
CellsAt(cells, from, n) == SubSeq(cells, from + 1, from + n)

SameOutside(before, after, from, n) ==
    /\ Len(after) = Len(before)
    /\ \A i \in DOMAIN before : (i <= from \/ i > from + n) => after[i] = before[i]

\* C1: after any sequence of append_start / append_end calls on a canvas of
\* width W, 0 <= free.start <= free.end <= W, and the display widths of the
\* accepted fragments sum to free.start + (W - free.end), hence to at most W.
C1_WidthBound ==
    pc = "canvas" =>
        /\ 0 <= canvas.free.start
        /\ canvas.free.start <= canvas.free.end
        /\ canvas.free.end <= frame.width
        /\ SumWidths(accepted) = canvas.free.start + (frame.width - canvas.free.end)
        /\ SumWidths(accepted) <= frame.width

\* C1 witness: fragments were accepted at both ends, one call was rejected and
\* the line is full.
C1_Witness ==
    /\ pc = "canvas"
    /\ Len(accepted) = 2
    /\ step = 3
    /\ canvas.free.start > 0
    /\ canvas.free.end < frame.width
    /\ canvas.free.start = canvas.free.end
    /\ last.result = "None"

\* C2: any two accepted fragments of non-zero width occupy disjoint column
\* ranges, and no column was written by more than one accepted fragment.
C2_NoOverlap ==
    pc = "canvas" =>
        /\ \A i, j \in DOMAIN accepted :
             i < j => Columns(accepted[i]) \cap Columns(accepted[j]) = {}
        /\ \A c \in DOMAIN writes : writes[c] <= 1

\* C2 witness: three fragments of non-zero width were accepted, from both ends.
C2_Witness ==
    /\ pc = "canvas"
    /\ Len(accepted) = 3
    /\ \A i \in DOMAIN accepted : UnicodeWidth(accepted[i].content) > 0
    /\ \E i, j \in DOMAIN accepted : accepted[i].anchor = "start" /\ accepted[j].anchor = "end"

\* C4: append_start of a text of display width w <= remaining_space() returns
\* success, draws the text in columns [free.start, free.start + w) of the old
\* interval, advances free.start by exactly w, and leaves free.end and every
\* other column unchanged.
C4_AppendStartFits ==
    (last.op = "append_start"
        /\ UnicodeWidth(last.content) <= remaining_space(last.before)) =>
    LET w == UnicodeWidth(last.content)
        old == last.before
    IN /\ last.result = "Some"
       /\ canvas.free.start = old.free.start + w
       /\ canvas.free.end = old.free.end
       /\ CellsAt(canvas.cells, old.free.start, w) = Rendered(last.style, last.content)
       /\ SameOutside(old.cells, canvas.cells, old.free.start, w)

\* C4 witness: a text with a wide and a zero-width character was appended at
\* the start of an interval that earlier appends had shrunk from both ends.
C4_Witness ==
    /\ last.op = "append_start"
    /\ last.result = "Some"
    /\ last.content = <<"a", "ZERO", "WIDE">>
    /\ last.before.free.start > 0
    /\ last.before.free.end < frame.width

\* C5: append_end of a text of display width w <= remaining_space() returns
\* success, draws the text in columns [free.end - w, free.end) of the old
\* interval, decreases free.end by exactly w, leaves free.start and every
\* other column unchanged, and free.end - w does not underflow.
C5_AppendEndFits ==
    (last.op = "append_end"
        /\ UnicodeWidth(last.content) <= remaining_space(last.before)) =>
    LET w == UnicodeWidth(last.content)
        old == last.before
    IN /\ last.result = "Some"
       /\ old.free.end - w >= 0
       /\ canvas.free.end = old.free.end - w
       /\ canvas.free.start = old.free.start
       /\ CellsAt(canvas.cells, old.free.end - w, w) = Rendered(last.style, last.content)
       /\ SameOutside(old.cells, canvas.cells, old.free.end - w, w)

\* C5 witness: a wide character was appended at the end of an interval that
\* earlier appends had shrunk from both ends.
C5_Witness ==
    /\ last.op = "append_end"
    /\ last.result = "Some"
    /\ last.content = <<"WIDE">>
    /\ last.before.free.start > 0
    /\ last.before.free.end < frame.width

\* C6: when the display width of the text exceeds remaining_space(),
\* append_start and append_end return None and leave the line buffer and the
\* free interval as they were.
C6_RejectLeavesCanvas ==
    (last.op \in {"append_start", "append_end"}
        /\ UnicodeWidth(last.content) > remaining_space(last.before)) =>
    /\ last.result = "None"
    /\ canvas.cells = last.before.cells
    /\ canvas.free = last.before.free

\* C6 witness: a text was rejected although the interval was not empty, after
\* an earlier fragment had been accepted.
C6_Witness ==
    /\ last.op \in {"append_start", "append_end"}
    /\ last.result = "None"
    /\ remaining_space(last.before) > 0
    /\ Len(accepted) > 0

(***************************************************************************)
(* Claims about the render pass, checked under Spec (frames of every       *)
(* width) and SpecLines (every pair of line counts).                       *)
(***************************************************************************)
\* the fragments drawn so far, by their place in the order of the chain
Drawn == {requests[i].k : i \in {j \in DOMAIN requests : requests[j].result = "Some"}}

\* the request made for the k-th fragment, if one was made
Made(k) == k \in DOMAIN requests /\ requests[k].k = k

\* C3: in one render pass, once fragment k is rejected for lack of space none
\* of the fragments k+1..9 is attempted or drawn, so the drawn fragments are
\* a prefix of the fixed order.
C3_ShortCircuit ==
    pc \in {"view", "done", "panicked"} =>
        /\ \A i \in DOMAIN requests :
             /\ requests[i].k = i
             /\ requests[i].result = "None" => i = Len(requests)
        /\ Drawn = 1..Cardinality(Drawn)
        /\ Len(accepted) = Cardinality(Drawn)
        /\ \A i \in DOMAIN accepted : accepted[i].content = requests[i].content

\* C3 witness: the pass ended with the second fragment rejected although the
\* one-column progress glyph requested after it would have fit.
C3_Witness ==
    /\ pc = "done"
    /\ Len(requests) = 2
    /\ requests[2].result = "None"
    /\ Drawn = {1}
    /\ properties.focused
    /\ properties.num_lines > 0
    /\ UnicodeWidth(ProgressGlyph(properties).content) = 1
    /\ remaining_space(canvas) >= 1

\* the palette index of a drawn progress glyph
GlyphIndex(content) == CHOOSE i \in 0..7 : PROGRESS_SYMBOLS[i + 1] = content[1]

\* C7 as stated: when focused and num_lines > 1, current_line_index = 0
\* selects palette index 0 and current_line_index = num_lines - 1 selects
\* palette index 7.
C7_LastLineSelectsLastGlyph ==
    (Made(3) /\ properties.focused /\ properties.num_lines > 1) =>
        /\ properties.current_line_index = 0 => GlyphIndex(requests[3].content) = 0
        /\ properties.current_line_index = properties.num_lines - 1
              => GlyphIndex(requests[3].content) = 7

\* C7 amended: when focused and num_lines > 1, current_line_index = 0 selects
\* palette index 0; current_line_index = num_lines - 1 selects palette index 7
\* when num_lines >= 14, and an index from 4 to 6 when num_lines < 14.
C7_ProgressGlyphEnds ==
    (Made(3) /\ properties.focused /\ properties.num_lines > 1) =>
        /\ properties.current_line_index = 0 => GlyphIndex(requests[3].content) = 0
        /\ (properties.current_line_index = properties.num_lines - 1
              /\ properties.num_lines >= 14)
              => GlyphIndex(requests[3].content) = 7
        /\ (properties.current_line_index = properties.num_lines - 1
              /\ properties.num_lines < 14)
              => GlyphIndex(requests[3].content) \in 4..6

\* C7 witness: the glyph of the last of exactly 14 lines was drawn.
C7_Witness ==
    /\ Made(3)
    /\ requests[3].result = "Some"
    /\ properties.focused
    /\ properties.num_lines = 14
    /\ properties.current_line_index = 13
    /\ requests[3].content = <<" ">>

Top == <<" ", "T", "o", "p", " ">>
End == <<" ", "E", "n", "d", " ">>

\* C8 as stated: the position indicator is " Top " whenever
\* current_line_index = 0 and " End " whenever current_line_index =
\* num_lines - 2 (saturating at 0).
C8_BoundaryLabelsAsStated ==
    Made(6) =>
        /\ properties.current_line_index = 0 => requests[6].content = Top
        /\ properties.current_line_index = SaturatingSub(properties.num_lines, 2)
              => requests[6].content = End

\* C8 amended: the position indicator is " Top " whenever current_line_index
\* = 0, and " End " whenever current_line_index = num_lines - 2 (saturating at
\* 0) and current_line_index is not 0.
C8_BoundaryLabels ==
    Made(6) =>
        /\ properties.current_line_index = 0 => requests[6].content = Top
        /\ (properties.current_line_index = SaturatingSub(properties.num_lines, 2)
              /\ properties.current_line_index # 0)
              => requests[6].content = End

\* C8 witness: " Top " was requested on line 0 of a two-line buffer, where
\* line 0 is also the line num_lines - 2.
C8_Witness ==
    /\ Made(6)
    /\ properties.num_lines = 2
    /\ properties.current_line_index = 0
    /\ requests[6].content = Top
    /\ requests[6].result = "Some"

\* " NN% " with NN right-aligned in two columns (three when NN >= 100)
PercentLabel(nn) ==
    IF nn < 10 THEN <<" ", " ", DigitChars[nn + 1], "%", " ">>
    ELSE IF nn < 100 THEN <<" ", DigitChars[(nn \div 10) + 1], DigitChars[(nn % 10) + 1], "%", " ">>
    ELSE <<" ", DigitChars[(nn \div 100) + 1], DigitChars[((nn \div 10) % 10) + 1],
           DigitChars[(nn % 10) + 1], "%", " ">>

ValidMiddleLine ==
    /\ properties.current_line_index < properties.num_lines
    /\ properties.current_line_index # 0
    /\ properties.current_line_index # SaturatingSub(properties.num_lines, 2)

\* C9 as stated: for a valid current_line_index that is neither 0 nor
\* num_lines - 2 the position indicator is " NN% " with
\* NN = floor(100 * (index + 1) / num_lines), and is exactly 5 columns wide.
C9_PercentFiveColumns ==
    (Made(6) /\ ValidMiddleLine) =>
        /\ requests[6].content =
              PercentLabel((100 * (properties.current_line_index + 1)) \div properties.num_lines)
        /\ UnicodeWidth(requests[6].content) = 5

\* C9 amended: for a valid current_line_index that is neither 0 nor
\* num_lines - 2 the position indicator is " NN% " with
\* NN = floor(100 * (index + 1) / num_lines) right-aligned in at least two
\* columns; it is 5 columns wide, except on the last line (index =
\* num_lines - 1), where it is " 100% " and 6 columns wide.
C9_PercentLabel ==
    (Made(6) /\ ValidMiddleLine) =>
        /\ requests[6].content =
              PercentLabel((100 * (properties.current_line_index + 1)) \div properties.num_lines)
        /\ properties.current_line_index < properties.num_lines - 1
              => UnicodeWidth(requests[6].content) = 5
        /\ properties.current_line_index = properties.num_lines - 1
              => /\ requests[6].content = <<" ", "1", "0", "0", "%", " ">>
                 /\ UnicodeWidth(requests[6].content) = 6

\* C9 witness: a one-digit percentage was drawn, padded to two columns
\* (index 1 of 21 lines: 200 / 21 = 9).
C9_Witness ==
    /\ Made(6)
    /\ requests[6].result = "Some"
    /\ ValidMiddleLine
    /\ properties.num_lines = 21
    /\ properties.current_line_index = 1
    /\ requests[6].content = <<" ", " ", "9", "%", " ">>

\* C10: when num_lines = 0 the render pass, for every current_line_index and
\* focus flag, computes a palette index within 0..7 and the position label
\* of 100%, without a fault.
C10_ZeroLinesGuarded ==
    properties.num_lines = 0 =>
        /\ pc # "panicked"
        /\ (Made(3) /\ properties.focused)
              => \E i \in 0..7 : requests[3].content = <<PROGRESS_SYMBOLS[i + 1]>>
        /\ (Made(6) /\ properties.current_line_index # 0)
              => requests[6].content = <<" ", "1", "0", "0", "%", " ">>

(***************************************************************************)
(* Claims about the component, checked under SpecComponent.                *)
(***************************************************************************)
\* C11: two render passes made from the same properties and the same frame
\* end with identical line buffers and identical free intervals, whatever
\* passes and updates came before them; the layout returned is the buffer of
\* the latest pass.
C11_Idempotent ==
    /\ \A i, j \in DOMAIN passes :
         (passes[i].properties = passes[j].properties /\ passes[i].frame = passes[j].frame)
            => (passes[i].cells = passes[j].cells /\ passes[i].free = passes[j].free)
    /\ pc = "done" => layout = passes[Len(passes)].cells

\* C11 witness: a second pass has finished from the properties and the frame
\* of the first, which had drawn some fragments and dropped the others.
C11_Witness ==
    /\ pc = "done"
    /\ Len(passes) = 2
    /\ passes[1].properties = passes[2].properties
    /\ passes[1].frame = passes[2].frame
    /\ Len(accepted) > 0
    /\ chain = "None"

(***************************************************************************)
(* Claims about the order of the requests, checked under Spec.             *)
(***************************************************************************)
FixedAnchors == <<"start", "start", "end", "start", "start", "end", "end", "start", "end">>

\* the styles the i-th fragment of the order may carry
FixedStyles ==
    <<{"frame_id_focused", "frame_id_unfocused"}, {"is_not_modified", "is_modified"},
      {"frame_id_focused", "position_in_file"}, {"file_size"}, {"file_name"},
      {"position_in_file"}, {"is_not_modified"}, {"mode"}, {"position_in_file"}>>

StartsWith(text, prefix) ==
    Len(text) >= Len(prefix) /\ SubSeq(text, 1, Len(prefix)) = prefix

EndsWith(text, suffix) ==
    Len(text) >= Len(suffix) /\ SubSeq(text, Len(text) - Len(suffix) + 1, Len(text)) = suffix

\* what tells the i-th fragment of the order from the others by its text
LooksLike(i, text) ==
    CASE i = 1 -> StartsWith(text, <<" ">>) /\ EndsWith(text, <<" ">>)
                  /\ \A j \in 2..(Len(text) - 1) : \E d \in DOMAIN DigitChars : text[j] = DigitChars[d]
      [] i = 2 -> text \in {<<" ", "-", " ">>, <<" ", "SNOWFLAKE", " ">>}
      [] i = 3 -> Len(text) = 1 /\ \E g \in DOMAIN PROGRESS_SYMBOLS : text[1] = PROGRESS_SYMBOLS[g]
      [] i = 4 -> StartsWith(text, <<" ">>) /\ Len(text) >= 2
                  /\ (\E d \in DOMAIN DigitChars : text[2] = DigitChars[d])
                  /\ ~EndsWith(text, <<" ">>)
      [] i = 5 -> text = <<>> \/ (StartsWith(text, <<" ">>) /\ text[2] # " ")
      [] i = 6 -> text \in {<<" ", "T", "o", "p", " ">>, <<" ", "E", "n", "d", " ">>}
                  \/ EndsWith(text, <<"%", " ">>)
      [] i = 7 -> \E j \in DOMAIN text : text[j] = ":"
      [] i = 8 -> StartsWith(text, <<" ", " ">>)
      [] i = 9 -> text = <<>> \/ EndsWith(text, <<" ", " ">>)

\* C12: a render pass makes its requests in the fixed order frame id (start),
\* modification glyph (start), progress glyph (end), file size (start), file
\* name (start), position indicator (end), line:column (end), mode (start),
\* branch (end), whatever the input values, and makes request i + 1 only
\* after request i has succeeded.
C12_FixedOrder ==
    pc \in {"view", "done", "panicked"} =>
        /\ Len(requests) <= 9
        /\ \A i \in DOMAIN requests :
             /\ requests[i].k = i
             /\ requests[i].anchor = FixedAnchors[i]
             /\ requests[i].style \in FixedStyles[i]
             /\ LooksLike(i, requests[i].content)
             /\ i > 1 => requests[i - 1].result = "Some"
        /\ requests # <<>> =>
             /\ last.op = (IF FixedAnchors[Len(requests)] = "start" THEN "append_start"
                           ELSE "append_end")
             /\ last.content = requests[Len(requests)].content
        /\ step >= Len(requests)

\* C12 witness: a pass has made all nine requests, the last for a branch name,
\* and every one succeeded.
C12_Witness ==
    /\ pc = "done"
    /\ Len(requests) = 9
    /\ \A i \in DOMAIN requests : requests[i].result = "Some"
    /\ requests[9].content = <<"m", "a", "s", "t", "e", "r", " ", " ">>
    /\ ~properties.focused

(***************************************************************************)
(* The concrete scenario, checked under Spec.                              *)
(***************************************************************************)
\* width 40, frame 1, focused, unchanged, line 0 of 100, 2048 bytes, a/b.txt,
\* mode Normal, cursor column 0, no repository
Scenario ==
    /\ properties = Props(<<100, 0>>, TRUE, "Unchanged", Some(<<"a", "b.txt">>), None)
    /\ properties.frame_id = 1
    /\ properties.size_bytes = 2048
    /\ properties.mode = "Normal"
    /\ properties.visual_cursor_x = 0
    /\ frame.width = 40

\* some columns of the line show the text in the style
Contains(cells, style, text) ==
    \E c \in 0..(Len(cells) - UnicodeWidth(text)) :
        CellsAt(cells, c, UnicodeWidth(text)) = Rendered(style, text)

\* C13: in the scenario the rendered line starts at column 0 with the frame
\* id, the " - " glyph, the size and " b.txt", in that order, also contains
\* " Top ", the line:column fragment and the mode fragment (none is dropped),
\* and has no branch text.
C13_Scenario ==
    (Scenario /\ pc = "done") =>
        /\ Len(layout) = 40
        /\ \A i \in 1..9 : Made(i) /\ requests[i].result = "Some"
        /\ CellsAt(layout, 0, 3) = Rendered("frame_id_focused", <<" ", "1", " ">>)
        /\ CellsAt(layout, 3, 3) = Rendered("is_not_modified", <<" ", "-", " ">>)
        /\ LET size == requests[4].content
               w == UnicodeWidth(size)
           IN /\ StartsWith(size, <<" ", "2">>)
              /\ CellsAt(layout, 6, w) = Rendered("file_size", size)
              /\ CellsAt(layout, 6 + w, 6) = Rendered("file_name", <<" ", "b", ".", "t", "x", "t">>)
              /\ CellsAt(layout, 12 + w, 8)
                    = Rendered("mode", <<" ", " ", "N", "o", "r", "m", "a", "l">>)
        /\ Contains(layout, "position_in_file", Top)
        /\ Contains(layout, "is_not_modified", <<" ", " ", " ", "0", ":", " ", "0", " ">>)
        /\ Contains(layout, "mode", <<" ", " ", "N", "o", "r", "m", "a", "l">>)
        /\ requests[9].content = <<>>
        /\ Cardinality({c \in DOMAIN layout : layout[c].style = "position_in_file"}) = 5

\* C13 witness: the pass of the scenario has finished and the line is full.
C13_Witness ==
    /\ Scenario
    /\ pc = "done"
    /\ remaining_space(canvas) = 0
    /\ Len(accepted) = 9

(***************************************************************************)
(* The free interval over a sequence of appends, checked under SpecCanvas. *)
(***************************************************************************)
\* C14: across every append_start / append_end step, accepted or rejected,
\* free.start never decreases and free.end never increases, so
\* remaining_space() never increases.
C14_NeverRegrows ==
    [][step' = step + 1 =>
          /\ canvas'.free.start >= canvas.free.start
          /\ canvas'.free.end <= canvas.free.end
          /\ remaining_space(canvas') <= remaining_space(canvas)]_vars

\* C14 witness: fragments were accepted at both ends, the interval shrank
\* from both sides, and the last request was rejected.
C14_Witness ==
    /\ pc = "canvas"
    /\ step = 3
    /\ \E i, j \in DOMAIN accepted :
         /\ accepted[i].anchor = "start" /\ accepted[i].width > 0
         /\ accepted[j].anchor = "end" /\ accepted[j].width > 0
    /\ canvas.free.start > 0
    /\ canvas.free.end < frame.width
    /\ last.result = "None"
    /\ last.before.free = canvas.free

(***************************************************************************)
(* The canvas at the start of a render pass, checked under Spec.           *)
(***************************************************************************)
\* C15: StatusCanvas::new(size, base) with height 1 and width W yields W
\* cells, each a blank in the base style, and the free interval [0, W), so
\* remaining_space() = W before any append.
C15_NewCanvas ==
    (pc = "view" /\ step = 0) =>
        /\ frame.height = 1
        /\ Len(canvas.cells) = frame.width
        /\ \A i \in DOMAIN canvas.cells :
             canvas.cells[i] = Textel(properties.theme.base, " ")
        /\ canvas.free.start = 0
        /\ canvas.free.end = frame.width
        /\ remaining_space(canvas) = frame.width

\* C15 witness: a pass has just built its canvas for a 40-column frame.
C15_Witness ==
    /\ pc = "view"
    /\ step = 0
    /\ requests = <<>>
    /\ frame.width = 40
    /\ Len(canvas.cells) = 40

(***************************************************************************)
(* The tiling of the line during a render pass, checked under Spec.        *)
(***************************************************************************)
IsStartAnchored(f) == f.anchor = "start"

IsEndAnchored(f) == f.anchor = "end"

\* the fragment is on the canvas, at the column recorded for it
Shown(f) ==
    CellsAt(canvas.cells, f.col, UnicodeWidth(f.content)) = Rendered(f.style, f.content)

\* C16: at every point of a render pass the columns of [free.start, free.end)
\* are exactly the columns not written yet, and are blank in the base style;
\* the accepted start-anchored fragments tile [0, free.start) left to right
\* in request order; the accepted end-anchored fragments tile [free.end, W),
\* each later one immediately to the left of the earlier ones.
C16_Tiling ==
    pc \in {"view", "done"} =>
        LET W == frame.width
            starts == SelectSeq(accepted, IsStartAnchored)
            ends == SelectSeq(accepted, IsEndAnchored)
        IN /\ \A c \in 0..(W - 1) :
                /\ (writes[c + 1] = 0) <=> (canvas.free.start <= c /\ c < canvas.free.end)
                /\ writes[c + 1] = 0 => canvas.cells[c + 1] = Textel(properties.theme.base, " ")
           /\ \A i \in DOMAIN starts :
                /\ starts[i].col = SumWidths(SubSeq(starts, 1, i - 1))
                /\ Shown(starts[i])
           /\ SumWidths(starts) = canvas.free.start
           /\ \A i \in DOMAIN ends :
                /\ ends[i].col = W - SumWidths(SubSeq(ends, 1, i))
                /\ Shown(ends[i])
           /\ W - SumWidths(ends) = canvas.free.end

\* C16 witness: a finished pass with several fragments at each end of the
\* line and free columns left between them.
C16_Witness ==
    /\ pc = "done"
    /\ Len(SelectSeq(accepted, IsStartAnchored)) >= 3
    /\ Len(SelectSeq(accepted, IsEndAnchored)) >= 3
    /\ \A i \in DOMAIN accepted : i <= 4 => accepted[i].width > 0
    /\ remaining_space(canvas) > 0

(***************************************************************************)
(* The update protocol, checked under SpecComponent.                       *)
(***************************************************************************)
\* C17: change(p) stores p and returns Yes exactly when p differs from the
\* stored properties, and otherwise returns No and leaves the stored state
\* as it was; resize(f) stores f, leaves the properties and returns Yes;
\* nothing else touches the stored properties and frame, so they are always
\* the most recently supplied ones.
C17_UpdateProtocol ==
    [][/\ (update' # update /\ update'.op = "change") =>
            /\ update'.properties = properties
            /\ (update'.result = "Yes") <=> (update'.arg # properties)
            /\ update'.result \in {"Yes", "No"}
            /\ properties' = update'.arg
            /\ frame' = frame
            /\ update'.result = "No" => properties' = properties
       /\ (update' # update /\ update'.op = "resize") =>
            /\ frame' = update'.arg
            /\ properties' = properties
            /\ update'.result = "Yes"
       /\ update' = update => (properties' = properties /\ frame' = frame)]_vars

\* C17 witness: the second update was a change that replaced the stored
\* properties, after which a pass rendered them.
C17_Witness ==
    /\ update.n = 2
    /\ update.op = "change"
    /\ update.result = "Yes"
    /\ properties = update.arg
    /\ properties # update.properties
    /\ frame = update.frame
    /\ pc = "done"
    /\ passes # <<>>
    /\ passes[Len(passes)].properties = update.arg

(***************************************************************************)
(* Fragments of display width 0, checked under Spec.                       *)
(***************************************************************************)
\* C18: a fragment of display width 0 (the file name when no path is set, the
\* branch text when there is no repository or no shorthand) is accepted
\* whatever space remains, even none; it leaves the cells and the free
\* interval as they were and the chain goes on to the next fragment.
C18_EmptyFragmentAccepted ==
    pc \in {"view", "done"} =>
        /\ (last.op # "none" /\ UnicodeWidth(last.content) = 0) =>
              /\ last.result = "Some"
              /\ chain = "Some"
              /\ canvas.cells = last.before.cells
              /\ canvas.free = last.before.free
        /\ (Made(5) /\ ~properties.file_path.some) =>
              /\ requests[5].content = <<>>
              /\ requests[5].result = "Some"
              /\ pc = "done" => Made(6)
        /\ (Made(9) /\ (~properties.repository.some \/ properties.repository.value = "unnamed")) =>
              /\ requests[9].content = <<>>
              /\ requests[9].result = "Some"

\* C18 witness: the empty file name has just been accepted on a line with no
\* free column left.
C18_Witness ==
    /\ pc = "view"
    /\ step = 5
    /\ ~properties.file_path.some
    /\ last.op = "append_start"
    /\ last.content = <<>>
    /\ remaining_space(last.before) = 0
    /\ last.result = "Some"
    /\ frame.width > 0

(***************************************************************************)
(* The palette index of the progress glyph, checked under SpecLines.       *)
(***************************************************************************)
\* 7 * c / n rounded to the nearest integer, halves away from zero
RoundedSevenths(c, n) == (14 * c + n) \div (2 * n)

\* C19: for num_lines > 0 and 0 <= current_line_index <= num_lines the
\* palette index is round(7 * current_line_index / num_lines), lies in 0..7
\* (the lookup never leaves the palette) and no smaller line has a larger
\* index; an unfocused view requests a single space and computes no index,
\* whatever the line counts are.
C19_PaletteIndex ==
    /\ (/\ properties.focused
        /\ properties.num_lines > 0
        /\ properties.current_line_index <= properties.num_lines) =>
           /\ pc # "panicked"
           /\ Made(3) =>
                LET index == ProgressIndex(properties.current_line_index, properties.num_lines)
                IN /\ index \in 0..7
                   /\ index = RoundedSevenths(properties.current_line_index,
                                              properties.num_lines)
                   /\ requests[3].content = <<PROGRESS_SYMBOLS[index + 1]>>
                   /\ \A c \in 0..properties.current_line_index :
                        ProgressIndex(c, properties.num_lines) <= index
    /\ ~properties.focused =>
           /\ pc # "panicked"
           /\ Made(3) =>
                /\ requests[3].content = <<" ">>
                /\ requests[3].anchor = "end"
                /\ requests[3].style = properties.theme.position_in_file

\* C19 witness: a focused pass has drawn the glyph of index 7 for
\* current_line_index = num_lines = 20.
C19_Witness ==
    /\ pc = "done"
    /\ properties.focused
    /\ properties.num_lines = 20
    /\ properties.current_line_index = 20
    /\ Made(3)
    /\ requests[3].result = "Some"
    /\ GlyphIndex(requests[3].content) = 7

====
